---- MODULE Spec2Model ----
(***************************************************************************)
(* Hospital data insights pipeline: the DuckDB star-schema warehouse build *)
(* (backend/warehouse/build_db.py), the integrity validation that precedes *)
(* it (backend/analytics/data_loader.py) and the classification feature    *)
(* projection (backend/analytics/features.py).                             *)
(*                                                                         *)
(* Timestamps are integers: day * TicksPerDay + time of day.  A data frame *)
(* is a sequence of records, one per row, in row order.                    *)
(***************************************************************************)
EXTENDS Integers, Sequences, FiniteSets, TLC

\* ------------------------------------------------------------------ bounds
MaxVisits == 2
MaxDay == 1
MaxBuilds == 2
MaxRows == 2
MaxAdmissions == 3
MaxKeys == 3
MaxPatients == 3

\* The times of day a visit timestamp can carry (0 = morning, 1 = afternoon).
TimesOfDay == {0, 1}
TicksPerDay == Cardinality(TimesOfDay)

\* The cleaned patient table (one registered patient) and the patient keys
\* that occur in visits: key 2 is no patient's.
RegisteredPatients == <<1>>
PatientIds == {1, 2}

\* Department names, listed in lexicographic (code point) order.
LexOrder == <<"Cardiology", "Emergency">>
DepartmentNames == {LexOrder[i] : i \in 1..Len(LexOrder)}

TableNames == {"dim_patient", "dim_department", "dim_date", "fact_visits"}

\* The value pandas' Series.map leaves for a key that is not in the mapping.
NaN == -1

VARIABLES
    df_patients,   \* cleaned patients: sequence of patient_id
    df_visits,     \* cleaned visits: sequence of visit rows
    tables,        \* the store: table name -> [exists, rows]
    indexes,       \* the store: set of [name, table]
    written,       \* history: table name -> number of the build that created it (0: none)
    pc,            \* position of the pipeline run
    builds,        \* number of build_warehouse calls started
    status,        \* outcome of the current / last run
    validated,     \* what validate_data returned and printed
    last,          \* history: store and status at the end of the previous run
    df_ml,         \* ML dataset handed to prepare_classification_features
    df_filtered,   \* rows kept by prepare_classification_features, with labels
    X,             \* classification features
    y,             \* classification labels
    cpc,           \* position of the classification projection
    X_columns,     \* column names of X, in order
    classifier_loaded, \* whether the prediction service holds a classifier
    patient_features,  \* the caller's feature map: sequence of [key, value]
    handed,        \* the frame handed to the scaler: sequence of [name, value]
    ppc,           \* position of the prediction call
    fe_patients,   \* feature engineering input: cleaned patients
    fe_visits,     \* feature engineering input: cleaned visits
    visit_agg,     \* result of create_visit_aggregations
    ml_dataset,    \* result of create_ml_dataset
    fpc,           \* position of the feature engineering run
    raw_patients,  \* the caller's raw patient table
    raw_visits,    \* the caller's raw visit table
    patients_clean, \* result of clean_patients
    visits_clean,  \* result of clean_visits
    transformations_applied, \* the cleaner's log of what it changed
    raw_columns,   \* the columns of the caller's raw tables
    etl_raised,    \* the exception a cleaner raised, "none" without one
    epc,           \* position of the ETL run
    prediction,    \* the result predict_readmission_risk returned
    X_reg,         \* regression feature rows
    y_reg,         \* regression target
    X_reg_columns, \* column names of the regression features, in order
    rpc,           \* position of the regression projection
    run_pc,        \* the stage run_complete_pipeline is about to run
    run_log,       \* the stages that have started, in order
    run_result     \* what run_complete_pipeline returned

wvars == <<df_patients, df_visits, tables, indexes, written, pc, builds,
           status, validated, last>>
cvars == <<df_ml, df_filtered, X, y, cpc>>
xvars == <<X_columns>>
pvars == <<classifier_loaded, patient_features, handed, prediction, ppc>>
fvars == <<fe_patients, fe_visits, visit_agg, ml_dataset, fpc>>
evars == <<raw_patients, raw_visits, patients_clean, visits_clean,
          transformations_applied, raw_columns, etl_raised, epc>>
rvars == <<X_reg, y_reg, X_reg_columns, rpc>>
uvars == <<run_pc, run_log, run_result>>
vars == <<df_patients, df_visits, tables, indexes, written, pc, builds,
          status, validated, last, df_ml, df_filtered, X, y, cpc,
          X_columns, classifier_loaded, patient_features, handed, ppc,
          fe_patients, fe_visits, visit_agg, ml_dataset, fpc,
          raw_patients, raw_visits, patients_clean, visits_clean,
          transformations_applied, raw_columns, etl_raised, epc,
          prediction, X_reg, y_reg, X_reg_columns, rpc,
          run_pc, run_log, run_result>>

\* ------------------------------------------------------------ sequences
Range(s) == {s[i] : i \in 1..Len(s)}

RECURSIVE SeqsUpTo(_, _)
SeqsUpTo(S, n) ==
    IF n = 0 THEN {<<>>}
    ELSE LET shorter == SeqsUpTo(S, n - 1)
         IN shorter \cup {Append(s, e) : s \in {t \in shorter : Len(t) = n - 1}, e \in S}

SetMin(S) == CHOOSE m \in S : \A e \in S : m <= e
SetMax(S) == CHOOSE m \in S : \A e \in S : m >= e

\* Python's str comparison on the department vocabulary.
Rank(name) == CHOOSE i \in 1..Len(LexOrder) : LexOrder[i] = name
StrLess(a, b) == Rank(a) < Rank(b)

\* pandas Series.unique(): the distinct values in order of first appearance.
RECURSIVE Unique(_)
Unique(s) ==
    IF s = <<>> THEN <<>>
    ELSE LET r == Unique(SubSeq(s, 1, Len(s) - 1))
             e == s[Len(s)]
         IN IF e \in Range(r) THEN r ELSE Append(r, e)

\* Insert e into the sorted sequence s, keeping it sorted.
RECURSIVE Insert(_, _)
Insert(e, s) ==
    IF s = <<>> THEN <<e>>
    ELSE IF StrLess(e, s[1]) THEN <<e>> \o s
    ELSE <<s[1]>> \o Insert(e, Tail(s))

\* The names left in order of first appearance.
Unsorted(s) == s

\* Python's sorted() on a sequence of department names.
RECURSIVE Sorted(_)
Sorted(s) ==
    IF s = <<>> THEN <<>>
    ELSE Insert(s[Len(s)], Sorted(SubSeq(s, 1, Len(s) - 1)))

\* ------------------------------------------------- dimension data frames
Column(df, c) == [i \in 1..Len(df) |-> df[i][c]]

\* Timestamp.date(): the calendar day of a timestamp.
DtDate(ts) == ts \div TicksPerDay

\* dim_patient: the projection of the patient attributes.
DimPatient(patients) ==
    [i \in 1..Len(patients) |-> [patient_id |-> patients[i]]]

\* dim_department: ids 1..N zipped with the sorted distinct names.
DimDepartment(visits) ==
    LET departments == Unique(Column(visits, "department"))
        names == Sorted(departments)
    IN [i \in 1..Len(departments) |->
            [department_id |-> i, department_name |-> names[i]]]

\* pd.date_range(start, end, freq='D'): start, start + 1 day, ... while <= end;
\* the elements keep the time of day of start.
DateRange(start, end) ==
    LET n == IF end < start THEN 0 ELSE (end - start) \div TicksPerDay + 1
    IN [k \in 1..n |-> start + (k - 1) * TicksPerDay]

\* dim_date: ids 1..N zipped with the range from the earliest to the latest visit_date.
DimDate(visits) ==
    LET stamps == Range(Column(visits, "visit_date"))
        dates == DateRange(SetMin(stamps), SetMax(stamps))
    IN [i \in 1..Len(dates) |-> [date_id |-> i, full_date |-> dates[i]]]

\* dict(zip(keys, values)) followed by Series.map: the value of the last pair
\* with that key, NaN when the key is absent.
MapGet(keys, values, k) ==
    LET hits == {i \in 1..Len(keys) : keys[i] = k}
    IN IF hits = {} THEN NaN ELSE values[SetMax(hits)]

\* The fact data frame: one row per visit with the two surrogate keys.
FactVisits(visits, dim_department, dim_date) ==
    LET dept_keys == Column(dim_department, "department_name")
        dept_vals == Column(dim_department, "department_id")
        date_keys == [i \in 1..Len(dim_date) |-> DtDate(dim_date[i].full_date)]
        date_vals == Column(dim_date, "date_id")
    IN [i \in 1..Len(visits) |->
            [visit_id |-> visits[i].visit_id,
             patient_id |-> visits[i].patient_id,
             date_id |-> MapGet(date_keys, date_vals, DtDate(visits[i].visit_date)),
             department_id |-> MapGet(dept_keys, dept_vals, visits[i].department)]]

\* ------------------------------------------- classification projection
\* A rate is the exact quotient num / den of two counts.
Rate(n, d) == [num |-> n, den |-> d]
RateGe(r, q) == r.num * q.den >= q.num * r.den

\* A rate threshold of one admission in four visits.
QuarterRate == Rate(1, 4)

\* The label's thresholds: admission_rate >= 0.3, total_admissions >= 2.
RiskRate == Rate(3, 10)
RiskAdmissions == 2

\* A row is kept when the patient has a visit.
HasVisit(r) == r.total_visits > 0

\* df_ml['total_admissions'] > 0
HasAdmission(r) == r.total_admissions > 0

\* Both clauses are required.
HighRiskBoth(r) ==
    IF RateGe(r.admission_rate, RiskRate) /\ r.total_admissions >= RiskAdmissions
    THEN 1 ELSE 0

\* ((admission_rate >= 0.3) | (total_admissions >= 2)).astype(int)
HighReadmissionRisk(r) ==
    IF RateGe(r.admission_rate, RiskRate) \/ r.total_admissions >= RiskAdmissions
    THEN 1 ELSE 0

\* df_ml[mask].copy() with the label column added; rows keep their index.
FilteredWithLabel(ml) ==
    LET kept == SelectSeq(ml, HasAdmission)
    IN [j \in 1..Len(kept) |->
            [index |-> kept[j].index,
             patient_id |-> kept[j].patient_id,
             total_visits |-> kept[j].total_visits,
             total_admissions |-> kept[j].total_admissions,
             admission_rate |-> kept[j].admission_rate,
             high_readmission_risk |-> HighReadmissionRisk(kept[j])]]

\* X = df_filtered[feature_cols]: of the feature columns, the profile counts
\* and the rate that the filter and the label read; rows keep their index.
FeatureFrame(filtered) ==
    [j \in 1..Len(filtered) |->
        [index |-> filtered[j].index,
         total_visits |-> filtered[j].total_visits,
         total_admissions |-> filtered[j].total_admissions,
         admission_rate |-> filtered[j].admission_rate]]

\* y = df_filtered['high_readmission_risk']
LabelSeries(filtered) ==
    [j \in 1..Len(filtered) |->
        [index |-> filtered[j].index, value |-> filtered[j].high_readmission_risk]]

\* ------------------------------------------------------- column order
\* The columns of the ML dataset in frame order: the generated patient
\* columns, the two the cleaner adds, those of create_patient_features, then
\* the aggregation columns merged in.
MLColumns ==
    <<"patient_id", "age", "gender", "bmi", "smoking_status",
      "chronic_conditions", "chronic_condition_count", "registration_date",
      "is_smoker", "has_chronic_condition",
      "age_group", "bmi_category", "high_bmi", "senior_citizen",
      "multiple_conditions",
      "total_visits", "avg_wait_time", "total_admissions", "avg_satisfaction",
      "first_visit", "last_visit", "days_since_first_visit",
      "visit_frequency", "admission_rate", "frequent_visitor">>

\* feature_cols of prepare_classification_features.
feature_cols ==
    <<"age", "bmi", "chronic_condition_count",
      "total_visits", "total_admissions", "avg_wait_time",
      "visit_frequency", "admission_rate",
      "is_smoker", "has_chronic_condition",
      "high_bmi", "senior_citizen", "multiple_conditions",
      "frequent_visitor">>

\* expected_features of predict_readmission_risk.
expected_features ==
    <<"age", "bmi", "chronic_condition_count",
      "total_visits", "total_admissions", "avg_wait_time",
      "visit_frequency", "admission_rate",
      "is_smoker", "has_chronic_condition",
      "high_bmi", "senior_citizen", "multiple_conditions",
      "frequent_visitor">>

\* The requested columns that the frame has, in the frame's own order.
SelectInFrameOrder(columns, names) ==
    SelectSeq(columns, LAMBDA c : c \in Range(names))

\* df[names]: the named columns in the order of names.
SelectColumns(columns, names) ==
    [i \in 1..Len(names) |-> names[i]]

\* pd.DataFrame([dict]): the columns are the dict's keys in insertion order.
FrameColumns(features) == [i \in 1..Len(features) |-> features[i].key]

\* Missing columns filled with 1.
RECURSIVE WithOnes(_, _)
WithOnes(features, names) ==
    IF names = <<>> THEN features
    ELSE IF names[1] \in Range(FrameColumns(features))
         THEN WithOnes(features, Tail(names))
         ELSE WithOnes(Append(features, [key |-> names[1], value |-> 1]), Tail(names))

\* patient_features[feat] = 0 for each expected feature that is no column:
\* the new columns are appended in the order of expected_features.
RECURSIVE WithDefaults(_, _)
WithDefaults(features, names) ==
    IF names = <<>> THEN features
    ELSE IF names[1] \in Range(FrameColumns(features))
         THEN WithDefaults(features, Tail(names))
         ELSE WithDefaults(Append(features, [key |-> names[1], value |-> 0]), Tail(names))

\* The value of column name in the one-row frame.
ValueOf(features, name) ==
    LET i == CHOOSE k \in 1..Len(features) : features[k].key = name
    IN features[i].value

\* X = patient_features[expected_features]
ExpectedFrame(features) ==
    LET filled == WithDefaults(features, expected_features)
        names == SelectColumns(FrameColumns(filled), expected_features)
    IN [i \in 1..Len(names) |-> [name |-> names[i], value |-> ValueOf(filled, names[i])]]

\* ------------------------------------------------------------ the store
Absent == [exists |-> FALSE, rows |-> <<>>]
Table(rows) == [exists |-> TRUE, rows |-> rows]

FactIndexes ==
    {[name |-> "idx_fact_patient", table |-> "fact_visits"],
     [name |-> "idx_fact_date", table |-> "fact_visits"],
     [name |-> "idx_fact_dept", table |-> "fact_visits"]}

\* A dropped table keeps its indexes.
IndexesKept(ixs, t) == ixs

\* DROP TABLE removes the indexes defined on the table with it.
IndexesAfterDrop(ixs, t) == {ix \in ixs : ix.table # t}

\* The visits whose patient_id is no patient's.
OrphanVisits == {i \in 1..Len(df_visits) : df_visits[i].patient_id \notin Range(df_patients)}

\* ------------------------------------------------------------- the input
VisitRows ==
    [patient_id : PatientIds,
     visit_date : {d * TicksPerDay + t : d \in 0..MaxDay, t \in TimesOfDay},
     department : DepartmentNames]

\* visit_id is the position of the row, as the generator numbers them.
WithVisitIds(rows) ==
    [i \in 1..Len(rows) |->
        [visit_id |-> i, patient_id |-> rows[i].patient_id,
         visit_date |-> rows[i].visit_date, department |-> rows[i].department]]

\* Visit counts of a patient in the ML dataset (0: a patient with no visit).
VisitCounts == {0, 1, 2, 3, 4, 10, 20}

\* The profile columns of one ML dataset row: admissions never exceed visits,
\* admission_rate is their quotient, 0 where the left join found no visit.
Profiles ==
    {[total_visits |-> q[1], total_admissions |-> q[2],
      admission_rate |-> IF q[1] = 0 THEN Rate(0, 1) ELSE Rate(q[2], q[1])] :
        q \in {c \in VisitCounts \X (0..MaxAdmissions) : c[2] <= c[1]}}

\* One row per patient: index and patient_id follow the row position.
WithPatientIds(rows) ==
    [i \in 1..Len(rows) |->
        [index |-> i - 1, patient_id |-> i,
         total_visits |-> rows[i].total_visits,
         total_admissions |-> rows[i].total_admissions,
         admission_rate |-> rows[i].admission_rate]]

ClassInit ==
    /\ df_ml = <<>>
    /\ df_filtered = <<>>
    /\ X = <<>>
    /\ y = <<>>
    /\ cpc = "off"

\* No prediction returned.
NoPrediction == [risk_probability |-> Rate(0, 0), risk_class |-> "", risk_level |-> ""]

PredictOff ==
    /\ X_columns = <<>>
    /\ classifier_loaded = FALSE
    /\ patient_features = <<>>
    /\ handed = <<>>
    /\ prediction = NoPrediction
    /\ ppc = "off"

FeaturesOff ==
    /\ fe_patients = <<>>
    /\ fe_visits = <<>>
    /\ visit_agg = <<>>
    /\ ml_dataset = <<>>
    /\ fpc = "off"

EtlInputsOff ==
    /\ raw_patients = <<>>
    /\ raw_visits = <<>>
    /\ patients_clean = <<>>
    /\ transformations_applied = <<>>
    /\ raw_columns = [patients |-> {}, visits |-> {}]
    /\ etl_raised = "none"
    /\ epc = "off"

RegressOff ==
    /\ X_reg = <<>>
    /\ y_reg = <<>>
    /\ X_reg_columns = <<>>
    /\ rpc = "off"

RunOff ==
    /\ run_pc = "off"
    /\ run_log = <<>>
    /\ run_result = "none"

EtlOff ==
    /\ EtlInputsOff
    /\ visits_clean = <<>>

Init ==
    /\ df_patients = RegisteredPatients
    /\ df_visits \in {WithVisitIds(rows) : rows \in SeqsUpTo(VisitRows, MaxVisits)}
    /\ tables = [t \in TableNames |-> Absent]
    /\ indexes = {}
    /\ written = [t \in TableNames |-> 0]
    /\ pc = "idle"
    /\ builds = 0
    /\ status = "none"
    /\ validated = [result |-> FALSE, integrity_ok |-> FALSE]
    /\ last = [tables |-> tables, indexes |-> indexes, status |-> status]
    /\ ClassInit
    /\ PredictOff
    /\ FeaturesOff
    /\ EtlOff
    /\ RegressOff
    /\ RunOff

\* ------------------------------------------------- steps of the pipeline
\* An exception leaves build_warehouse; run_complete_pipeline returns False.
Raise ==
    /\ pc' = "idle"
    /\ status' = "failed"

\* conn.execute("DROP TABLE IF EXISTS <t>")
DropTable(t, next) ==
    /\ tables' = [tables EXCEPT ![t] = Absent]
    /\ indexes' = IndexesAfterDrop(indexes, t)
    /\ written' = [written EXCEPT ![t] = 0]
    /\ pc' = next
    /\ UNCHANGED status

\* conn.execute("CREATE TABLE <t> AS SELECT * FROM <t>_temp")
CreateTableAs(t, rows, next) ==
    IF tables[t].exists
    THEN Raise /\ UNCHANGED <<tables, indexes, written>>
    ELSE /\ tables' = [tables EXCEPT ![t] = Table(rows)]
         /\ written' = [written EXCEPT ![t] = builds]
         /\ pc' = next
         /\ UNCHANGED <<indexes, status>>

\* DataLoader.validate_data: prints the referential integrity finding and returns True.
ValidateData ==
    /\ pc = "idle"
    /\ builds < MaxBuilds
    /\ validated' = [result |-> TRUE, integrity_ok |-> OrphanVisits = {}]
    /\ pc' = "connect"
    /\ UNCHANGED <<df_patients, df_visits, tables, indexes, written, builds, status, last>>
    /\ UNCHANGED <<cvars, xvars, pvars, fvars, evars, rvars, uvars>>

\* build_warehouse: self.connect()
Connect ==
    /\ pc = "connect"
    /\ builds' = builds + 1
    /\ status' = "running"
    /\ last' = [tables |-> tables, indexes |-> indexes, status |-> status]
    /\ pc' = "drop_dim_patient"
    /\ UNCHANGED <<df_patients, df_visits, tables, indexes, written, validated>>
    /\ UNCHANGED <<cvars, xvars, pvars, fvars, evars, rvars, uvars>>

DropDimPatient ==
    /\ pc = "drop_dim_patient"
    /\ DropTable("dim_patient", "create_dim_patient")
    /\ UNCHANGED <<df_patients, df_visits, builds, validated, last>>
    /\ UNCHANGED <<cvars, xvars, pvars, fvars, evars, rvars, uvars>>

CreateDimPatient ==
    /\ pc = "create_dim_patient"
    /\ CreateTableAs("dim_patient", DimPatient(df_patients), "drop_dim_department")
    /\ UNCHANGED <<df_patients, df_visits, builds, validated, last>>
    /\ UNCHANGED <<cvars, xvars, pvars, fvars, evars, rvars, uvars>>

DropDimDepartment ==
    /\ pc = "drop_dim_department"
    /\ DropTable("dim_department", "create_dim_department")
    /\ UNCHANGED <<df_patients, df_visits, builds, validated, last>>
    /\ UNCHANGED <<cvars, xvars, pvars, fvars, evars, rvars, uvars>>

CreateDimDepartment ==
    /\ pc = "create_dim_department"
    /\ CreateTableAs("dim_department", DimDepartment(df_visits), "date_range")
    /\ UNCHANGED <<df_patients, df_visits, builds, validated, last>>
    /\ UNCHANGED <<cvars, xvars, pvars, fvars, evars, rvars, uvars>>

\* pd.date_range(start=min, end=max): min and max of no visit are NaT, and
\* date_range raises ValueError on a NaT bound.
DimDateRange ==
    /\ pc = "date_range"
    /\ IF df_visits = <<>>
       THEN Raise
       ELSE pc' = "drop_dim_date" /\ UNCHANGED status
    /\ UNCHANGED <<df_patients, df_visits, tables, indexes, written, builds, validated, last>>
    /\ UNCHANGED <<cvars, xvars, pvars, fvars, evars, rvars, uvars>>

DropDimDate ==
    /\ pc = "drop_dim_date"
    /\ DropTable("dim_date", "create_dim_date")
    /\ UNCHANGED <<df_patients, df_visits, builds, validated, last>>
    /\ UNCHANGED <<cvars, xvars, pvars, fvars, evars, rvars, uvars>>

CreateDimDate ==
    /\ pc = "create_dim_date"
    /\ CreateTableAs("dim_date", DimDate(df_visits), "drop_fact_visits")
    /\ UNCHANGED <<df_patients, df_visits, builds, validated, last>>
    /\ UNCHANGED <<cvars, xvars, pvars, fvars, evars, rvars, uvars>>

DropFactVisits ==
    /\ pc = "drop_fact_visits"
    /\ DropTable("fact_visits", "create_fact_visits")
    /\ UNCHANGED <<df_patients, df_visits, builds, validated, last>>
    /\ UNCHANGED <<cvars, xvars, pvars, fvars, evars, rvars, uvars>>

\* create_fact_table resolves the keys against the data frames that
\* create_dimension_tables returned, then writes the table.
CreateFactVisits ==
    /\ pc = "create_fact_visits"
    /\ CreateTableAs("fact_visits",
                     FactVisits(df_visits, DimDepartment(df_visits), DimDate(df_visits)),
                     "create_indexes")
    /\ UNCHANGED <<df_patients, df_visits, builds, validated, last>>
    /\ UNCHANGED <<cvars, xvars, pvars, fvars, evars, rvars, uvars>>

\* create_indexes: three CREATE INDEX statements, each raising when an index
\* of that name exists; then build_warehouse returns.
CreateIndexes ==
    /\ pc = "create_indexes"
    /\ IF \E ix \in indexes : ix.name \in {n.name : n \in FactIndexes}
       THEN Raise /\ UNCHANGED indexes
       ELSE /\ indexes' = indexes \cup FactIndexes
            /\ pc' = "idle"
            /\ status' = "ok"
    /\ UNCHANGED <<df_patients, df_visits, tables, written, builds, validated, last>>
    /\ UNCHANGED <<cvars, xvars, pvars, fvars, evars, rvars, uvars>>

Next ==
    \/ ValidateData
    \/ Connect
    \/ DropDimPatient
    \/ CreateDimPatient
    \/ DropDimDepartment
    \/ CreateDimDepartment
    \/ DimDateRange
    \/ DropDimDate
    \/ CreateDimDate
    \/ DropFactVisits
    \/ CreateFactVisits
    \/ CreateIndexes

Spec == Init /\ [][Next]_vars

\* --------------------------------------- the classification projection
WarehouseOff ==
    /\ df_patients = <<>>
    /\ df_visits = <<>>
    /\ tables = [t \in TableNames |-> Absent]
    /\ indexes = {}
    /\ written = [t \in TableNames |-> 0]
    /\ pc = "off"
    /\ builds = 0
    /\ status = "none"
    /\ validated = [result |-> FALSE, integrity_ok |-> FALSE]
    /\ last = [tables |-> tables, indexes |-> indexes, status |-> status]

InitClassify ==
    /\ WarehouseOff
    /\ df_ml \in {WithPatientIds(rows) : rows \in SeqsUpTo(Profiles, MaxRows)}
    /\ df_filtered = <<>>
    /\ X = <<>>
    /\ y = <<>>
    /\ cpc = "ready"
    /\ PredictOff
    /\ FeaturesOff
    /\ EtlOff
    /\ RegressOff
    /\ RunOff

\* FeatureEngineer.prepare_classification_features(df_ml)
PrepareClassificationFeatures ==
    /\ cpc = "ready"
    /\ df_filtered' = FilteredWithLabel(df_ml)
    /\ X' = FeatureFrame(FilteredWithLabel(df_ml))
    /\ y' = LabelSeries(FilteredWithLabel(df_ml))
    /\ X_columns' = SelectColumns(MLColumns, feature_cols)
    /\ cpc' = "done"
    /\ UNCHANGED df_ml
    /\ UNCHANGED <<wvars, pvars, fvars, evars, rvars, uvars>>

NextClassify == PrepareClassificationFeatures

SpecClassify == InitClassify /\ [][NextClassify]_vars

\* ------------------------------------------------- the prediction call
\* Keys a caller's feature map can hold (patient_id is no feature) and the
\* values it gives them.
InputKeys == {"age", "admission_rate", "frequent_visitor", "patient_id"}
InputValues == {1, 2}

\* The feature maps: up to MaxKeys distinct keys in any insertion order.
FeatureMaps ==
    {m \in SeqsUpTo([key : InputKeys, value : InputValues], MaxKeys) :
        \A i, j \in 1..Len(m) : m[i].key = m[j].key => i = j}

InitPredict ==
    /\ WarehouseOff
    /\ df_ml \in {WithPatientIds(rows) : rows \in SeqsUpTo(Profiles, 1)}
    /\ df_filtered = <<>>
    /\ X = <<>>
    /\ y = <<>>
    /\ cpc = "ready"
    /\ X_columns = <<>>
    /\ classifier_loaded \in BOOLEAN
    /\ patient_features = <<>>
    /\ handed = <<>>
    /\ prediction = NoPrediction
    /\ ppc = "ready"
    /\ FeaturesOff
    /\ EtlOff
    /\ RegressOff
    /\ RunOff

\* The probabilities predict_proba can give, in tenths: the thresholds of
\* the levels, a value between each two, and the ends.
Probabilities == {Rate(k, 10) : k \in {0, 2, 3, 4, 5, 6, 7, 10}}

\* The thresholds 0.7, 0.5 and 0.3 of the risk levels.
VeryHighFrom == Rate(7, 10)
HighFrom == Rate(5, 10)
ModerateFrom == Rate(3, 10)

\* Levels whose thresholds belong to the level below.
LevelAboveThreshold(probability) ==
    IF ~RateGe(VeryHighFrom, probability) THEN "Very High"
    ELSE IF ~RateGe(HighFrom, probability) THEN "High"
    ELSE IF ~RateGe(ModerateFrom, probability) THEN "Moderate"
    ELSE "Low"

\* PredictionService._get_risk_level(probability)
GetRiskLevel(probability) ==
    IF RateGe(probability, VeryHighFrom) THEN "Very High"
    ELSE IF RateGe(probability, HighFrom) THEN "High"
    ELSE IF RateGe(probability, ModerateFrom) THEN "Moderate"
    ELSE "Low"

\* risk_class = 'High Risk' if risk_proba >= 0.5 else 'Low Risk'
RiskClass(risk_proba) ==
    IF RateGe(risk_proba, HighFrom) THEN "High Risk" ELSE "Low Risk"

\* The dict predict_readmission_risk returns for risk_proba.
RiskReport(risk_proba) ==
    [risk_probability |-> risk_proba,
     risk_class |-> RiskClass(risk_proba),
     risk_level |-> GetRiskLevel(risk_proba)]

\* PredictionService.predict_readmission_risk(patient_features): the frame
\* handed to scaler_class.transform and the returned dict, for whatever
\* probability the classifier gives; ValueError without a classifier.
PredictReadmissionRisk ==
    /\ ppc = "ready"
    /\ \E m \in FeatureMaps :
          /\ patient_features' = m
          /\ IF classifier_loaded
             THEN /\ handed' = ExpectedFrame(m)
                  /\ \E risk_proba \in Probabilities :
                        prediction' = RiskReport(risk_proba)
                  /\ ppc' = "predicted"
             ELSE /\ handed' = <<>>
                  /\ prediction' = prediction
                  /\ ppc' = "error"
    /\ UNCHANGED classifier_loaded
    /\ UNCHANGED <<wvars, cvars, xvars, fvars, evars, rvars, uvars>>

\* The classification projection without the prediction call.
PrepareForTraining ==
    /\ ppc # "off"
    /\ PrepareClassificationFeatures

NextPredict ==
    \/ PrepareForTraining
    \/ PredictReadmissionRisk

SpecPredict == InitPredict /\ [][NextPredict]_vars

\* ------------------------------------------------- feature engineering
\* Missing values of the float columns that hold quotients and of timestamps.
NaNRate == Rate(0, 0)
NaT == -1
IsNaN(r) == r.den = 0

\* Series.fillna(value)
FillNa(v, value) == IF v = NaN THEN value ELSE v
FillNaRate(r, value) == IF IsNaN(r) THEN value ELSE r

DaysPerYear == 365
FrequentVisits == 5

RECURSIVE Sum(_)
Sum(s) == IF s = <<>> THEN 0 ELSE s[1] + Sum(Tail(s))

\* The group keys in ascending order, as groupby sorts them.
RECURSIVE Ascending(_)
Ascending(S) ==
    IF S = {} THEN <<>>
    ELSE <<SetMin(S)>> \o Ascending(S \ {SetMin(S)})

\* (last_visit - first_visit).dt.days: the whole days of the elapsed time.
ElapsedDays(first_visit, last_visit) == (last_visit - first_visit) \div TicksPerDay

\* The elapsed whole days without the added day.
DaysWithoutFirst(first_visit, last_visit) == ElapsedDays(first_visit, last_visit)

\* days_since_first_visit = (last_visit - first_visit).dt.days + 1
DaysSinceFirstVisit(first_visit, last_visit) ==
    ElapsedDays(first_visit, last_visit) + 1

\* Admissions per day of history.
AdmissionsPerDay(admissions, visits, days) == Rate(admissions, days)

\* admission_rate = total_admissions / total_visits
AdmissionRate(admissions, visits, days) == Rate(admissions, visits)

\* One aggregated profile: the agg() columns of a patient's group and the
\* columns derived from them.
Profile(p, group) ==
    LET total_visits == Len(group)
        total_admissions == Sum(Column(group, "is_admitted"))
        first_visit == SetMin(Range(Column(group, "visit_date")))
        last_visit == SetMax(Range(Column(group, "visit_date")))
        days == DaysSinceFirstVisit(first_visit, last_visit)
    IN [patient_id |-> p,
        total_visits |-> total_visits,
        avg_wait_time |-> Rate(Sum(Column(group, "wait_time_minutes")), total_visits),
        total_admissions |-> total_admissions,
        avg_satisfaction |-> Rate(Sum(Column(group, "satisfaction_score")), total_visits),
        first_visit |-> first_visit,
        last_visit |-> last_visit,
        days_since_first_visit |-> days,
        visit_frequency |-> FillNaRate(Rate(total_visits * DaysPerYear, days), Rate(0, 1)),
        admission_rate |-> AdmissionRate(total_admissions, total_visits, days),
        frequent_visitor |-> IF total_visits >= FrequentVisits THEN 1 ELSE 0]

\* FeatureEngineer.create_visit_aggregations(df_visits): one row per
\* patient_id present in the visits, in ascending key order.
VisitAggregations(visits) ==
    LET keys == Ascending(Range(Column(visits, "patient_id")))
    IN [k \in 1..Len(keys) |->
            Profile(keys[k], SelectSeq(visits, LAMBDA v : v.patient_id = keys[k]))]

\* The row a left join gives a patient without a profile.
Unmatched(patient) ==
    [patient_id |-> patient.patient_id,
     total_visits |-> NaN,
     avg_wait_time |-> NaNRate,
     total_admissions |-> NaN,
     avg_satisfaction |-> NaNRate,
     first_visit |-> NaT,
     last_visit |-> NaT,
     days_since_first_visit |-> NaN,
     visit_frequency |-> NaNRate,
     admission_rate |-> NaNRate,
     frequent_visitor |-> NaN]

\* An inner join: patients without a profile are left out.
RECURSIVE InnerMerge(_, _)
InnerMerge(patients, agg) ==
    IF patients = <<>> THEN <<>>
    ELSE SelectSeq(agg, LAMBDA a : a.patient_id = patients[1].patient_id)
            \o InnerMerge(Tail(patients), agg)

\* df_patients_enhanced.merge(visit_agg, on='patient_id', how='left'): the
\* patients in their order, each with its matching profiles or one row of
\* missing values.
RECURSIVE Merge(_, _)
Merge(patients, agg) ==
    IF patients = <<>> THEN <<>>
    ELSE LET matches == SelectSeq(agg, LAMBDA a : a.patient_id = patients[1].patient_id)
         IN (IF matches = <<>> THEN <<Unmatched(patients[1])>> ELSE matches)
                \o Merge(Tail(patients), agg)

\* Insert rate r into the ascending sequence s.
RECURSIVE InsertRate(_, _)
InsertRate(r, s) ==
    IF s = <<>> THEN <<r>>
    ELSE IF RateGe(s[1], r) THEN <<r>> \o s
    ELSE <<s[1]>> \o InsertRate(r, Tail(s))

RECURSIVE SortedRates(_)
SortedRates(s) ==
    IF s = <<>> THEN <<>>
    ELSE InsertRate(s[1], SortedRates(Tail(s)))

\* The lower of the two middle values, without averaging.
LowerMiddle(s) ==
    LET present == SortedRates(SelectSeq(s, LAMBDA r : ~IsNaN(r)))
    IN IF present = <<>> THEN NaNRate ELSE present[(Len(present) + 1) \div 2]

\* Series.median(): missing values are skipped; the middle value, the mean of
\* the two middle values for an even count, NaN when nothing is left.
Median(s) ==
    LET present == SortedRates(SelectSeq(s, LAMBDA r : ~IsNaN(r)))
        n == Len(present)
        lo == present[n \div 2]
        hi == present[n \div 2 + 1]
    IN IF n = 0 THEN NaNRate
       ELSE IF n % 2 = 1 THEN hi
       ELSE Rate(lo.num * hi.den + hi.num * lo.den, 2 * lo.den * hi.den)

\* The six fillna calls of create_ml_dataset; avg_satisfaction, first_visit,
\* last_visit and days_since_first_visit are not filled.
FillMissing(ml) ==
    LET median == Median(Column(ml, "avg_wait_time"))
    IN [i \in 1..Len(ml) |->
            [ml[i] EXCEPT
                !.total_visits = FillNa(@, 0),
                !.total_admissions = FillNa(@, 0),
                !.avg_wait_time = FillNaRate(@, median),
                !.visit_frequency = FillNaRate(@, Rate(0, 1)),
                !.admission_rate = FillNaRate(@, Rate(0, 1)),
                !.frequent_visitor = FillNa(@, 0)]]

\* FeatureEngineer.create_ml_dataset(df_patients, df_visits)
MlDataset(patients, visits) == FillMissing(Merge(patients, VisitAggregations(visits)))

\* Patient tables of the feature engineering run: patient 2 before patient 1.
PatientTables == {<<[patient_id |-> 2], [patient_id |-> 1]>>, <<[patient_id |-> 1]>>}

\* Cleaned visits: the flag is 0 or 1; wait time and satisfaction follow the
\* row position.
CleanVisitRows(days) ==
    [patient_id : PatientIds,
     visit_date : {d * TicksPerDay + t : d \in days, t \in TimesOfDay},
     is_admitted : {0, 1}]

WithMeasures(rows) ==
    [i \in 1..Len(rows) |->
        [visit_id |-> i, patient_id |-> rows[i].patient_id,
         visit_date |-> rows[i].visit_date,
         is_admitted |-> rows[i].is_admitted,
         wait_time_minutes |-> 10 * i,
         satisfaction_score |-> 1 + (i % 5)]]

\* Three visits of patient 1 on days 1, 5 and 10, one of them an admission,
\* at any time of day and in any row order.
ScenarioDays == {1, 5, 10}
ScenarioVisits ==
    {s \in [1..3 -> {r \in CleanVisitRows(ScenarioDays) : r.patient_id = 1}] :
        /\ {DtDate(s[i].visit_date) : i \in 1..3} = ScenarioDays
        /\ Sum(Column(s, "is_admitted")) = 1}

InitFeatures ==
    /\ WarehouseOff
    /\ ClassInit
    /\ PredictOff
    /\ EtlOff
    /\ RegressOff
    /\ RunOff
    /\ fe_patients \in PatientTables
    /\ fe_visits \in {WithMeasures(rows) :
            rows \in SeqsUpTo(CleanVisitRows(0..MaxDay), MaxVisits) \cup ScenarioVisits}
    /\ visit_agg = <<>>
    /\ ml_dataset = <<>>
    /\ fpc = "ready"

\* FeatureEngineer.create_visit_aggregations(df_visits), called on its own.
CreateVisitAggregations ==
    /\ fpc = "ready"
    /\ visit_agg' = VisitAggregations(fe_visits)
    /\ fpc' = "aggregated"
    /\ UNCHANGED <<fe_patients, fe_visits, ml_dataset>>
    /\ UNCHANGED <<wvars, cvars, xvars, pvars, evars, rvars, uvars>>

\* FeatureEngineer.create_ml_dataset(df_patients, df_visits)
CreateMlDataset ==
    /\ fpc \in {"ready", "aggregated"}
    /\ visit_agg' = VisitAggregations(fe_visits)
    /\ ml_dataset' = MlDataset(fe_patients, fe_visits)
    /\ fpc' = "done"
    /\ UNCHANGED <<fe_patients, fe_visits>>
    /\ UNCHANGED <<wvars, cvars, xvars, pvars, evars, rvars, uvars>>

NextFeatures ==
    \/ CreateVisitAggregations
    \/ CreateMlDataset

SpecFeatures == InitFeatures /\ [][NextFeatures]_vars

\* ------------------------------------------------------------ the cleaner
\* str.upper(), str.capitalize() and str.title() on the raw vocabulary.
StrUpper(s) == CASE s = "m" -> "M" [] s = "f" -> "F" [] OTHER -> s
StrCapitalize(s) == CASE s = "yes" -> "Yes" [] s = "NO" -> "No" [] OTHER -> s
StrTitle(s) == CASE s = "emergency" -> "Emergency" [] s = "CARDIOLOGY" -> "Cardiology" [] OTHER -> s

\* pd.to_datetime on a date text, read as its day and time of day.
ToDatetime(text) == text[1] * TicksPerDay + text[2]

\* astype(int) on a boolean.
AsInt(b) == IF b THEN 1 ELSE 0

\* The value left as it is.
Unclipped(v, lower) == v

\* Series.clip(lower=lower)
Clip(v, lower) == IF v < lower THEN lower ELSE v

\* The object the cleaner works on when it works on its argument.
SameObject(object) == object

\* df.copy(): a new object.
DfCopy(object) == "copy"

\* The rows clean_patients leaves in the object it works on.
CleanedPatients(df) ==
    LET median == Median(Column(df, "bmi"))
    IN [i \in 1..Len(df) |->
            [patient_id |-> df[i].patient_id,
             bmi |-> FillNaRate(df[i].bmi, median),
             gender |-> StrUpper(df[i].gender),
             smoking_status |-> StrCapitalize(df[i].smoking_status),
             chronic_condition_count |-> df[i].chronic_condition_count,
             registration_date |-> ToDatetime(df[i].registration_date),
             is_smoker |-> IF StrCapitalize(df[i].smoking_status) = "Yes" THEN 1 ELSE 0,
             has_chronic_condition |-> IF df[i].chronic_condition_count > 0 THEN 1 ELSE 0]]

\* The rows clean_visits leaves in the object it works on.
CleanedVisits(df) ==
    [i \in 1..Len(df) |->
        [visit_id |-> df[i].visit_id,
         patient_id |-> df[i].patient_id,
         visit_date |-> ToDatetime(df[i].visit_date),
         wait_time_minutes |-> Clip(df[i].wait_time_minutes, 0),
         department |-> StrTitle(df[i].department),
         is_admitted |-> AsInt(df[i].is_admitted),
         ward |-> df[i].ward,
         length_of_stay_days |-> df[i].length_of_stay_days,
         billing_amount |-> df[i].billing_amount,
         visit_day |-> DtDate(ToDatetime(df[i].visit_date)),
         visit_hour |-> ToDatetime(df[i].visit_date) % TicksPerDay]]

\* Raw patients: bmi may be missing; the other columns follow the row
\* position, smoking_status in either case.
RawBmi == {NaNRate, Rate(20, 1), Rate(30, 1)}
RawPatientRows == [bmi : RawBmi]
RawPatients(rows) ==
    [i \in 1..Len(rows) |->
        [patient_id |-> i,
         bmi |-> rows[i].bmi,
         gender |-> IF i % 2 = 1 THEN "m" ELSE "F",
         smoking_status |-> IF i % 2 = 1 THEN "yes" ELSE "No",
         chronic_condition_count |-> i - 1,
         registration_date |-> <<i, 0>>]]

\* Raw visits: the wait time may be negative, the admission flag is a
\* boolean; ward, length of stay and billing follow the flag as the
\* generator derives them.
RawWaits == {-5, 0, 7}
NoWard == "None"
RawVisitRows == [wait_time_minutes : RawWaits, is_admitted : BOOLEAN]
RawVisits(rows) ==
    [i \in 1..Len(rows) |->
        [visit_id |-> i,
         patient_id |-> 1,
         visit_date |-> <<i, i % 2>>,
         wait_time_minutes |-> rows[i].wait_time_minutes,
         department |-> IF i % 2 = 1 THEN "emergency" ELSE "Cardiology",
         is_admitted |-> rows[i].is_admitted,
         ward |-> IF rows[i].is_admitted THEN "Ward A" ELSE NoWard,
         length_of_stay_days |-> IF rows[i].is_admitted THEN 1 + i ELSE 0,
         billing_amount |-> 500 + (IF rows[i].is_admitted THEN 1 + i ELSE 0) * 1200]]

\* The columns of the generated tables that the model carries, and the
\* columns each cleaner reads, in the order it reads them.
PatientColumns ==
    {"patient_id", "bmi", "gender", "smoking_status", "chronic_condition_count",
     "registration_date"}
VisitColumns ==
    {"visit_id", "patient_id", "visit_date", "wait_time_minutes", "department",
     "is_admitted", "ward", "length_of_stay_days", "billing_amount"}
PatientsRequired ==
    <<"bmi", "gender", "smoking_status", "registration_date", "chronic_condition_count">>
VisitsRequired == <<"visit_date", "wait_time_minutes", "department", "is_admitted">>

\* The raw tables a run can be handed: complete, or lacking one column.
RawColumnSets ==
    {[patients |-> PatientColumns \ a[1], visits |-> VisitColumns \ a[2]] :
        a \in {<<{}, {}>>, <<{"bmi"}, {}>>, <<{"gender"}, {}>>,
               <<{}, {"wait_time_minutes"}>>}}

\* df[columns]: the rows with the named columns only.
Project(df, columns) == [i \in 1..Len(df) |-> [c \in columns |-> df[i][c]]]

\* df[name] raises KeyError when the frame has no such column.
HasColumns(required, columns) == Range(required) \subseteq columns

InitEtl ==
    /\ WarehouseOff
    /\ ClassInit
    /\ PredictOff
    /\ FeaturesOff
    /\ raw_columns \in RawColumnSets
    /\ raw_patients \in {Project(RawPatients(rows), raw_columns.patients) :
            rows \in SeqsUpTo(RawPatientRows, MaxPatients)}
    /\ raw_visits \in {Project(RawVisits(rows), raw_columns.visits) :
            rows \in SeqsUpTo(RawVisitRows, MaxVisits)}
    /\ patients_clean = <<>>
    /\ visits_clean = <<>>
    /\ transformations_applied = <<>>
    /\ etl_raised = "none"
    /\ epc = "ready"
    /\ RegressOff
    /\ RunOff

\* ETLProcessor.clean_patients(df_patients), first call of process_all.
CleanPatients ==
    /\ epc = "ready"
    /\ IF HasColumns(PatientsRequired, raw_columns.patients)
       THEN LET df == DfCopy("caller")
            IN /\ raw_patients' = IF df = "caller" THEN CleanedPatients(raw_patients)
                                  ELSE raw_patients
               /\ patients_clean' = CleanedPatients(raw_patients)
               /\ etl_raised' = "none"
               /\ epc' = "patients"
       ELSE /\ etl_raised' = "KeyError"
            /\ epc' = "failed"
            /\ UNCHANGED <<raw_patients, patients_clean>>
    /\ transformations_applied' =
          IF /\ "bmi" \in raw_columns.patients
             /\ \E i \in 1..Len(raw_patients) : IsNaN(raw_patients[i].bmi)
          THEN Append(transformations_applied, "Filled missing BMI with median")
          ELSE transformations_applied
    /\ UNCHANGED <<raw_visits, visits_clean, raw_columns>>
    /\ UNCHANGED <<wvars, cvars, xvars, pvars, fvars, rvars, uvars>>

\* ETLProcessor.clean_visits(df_visits), second call of process_all.
CleanVisits ==
    /\ epc = "patients"
    /\ IF HasColumns(VisitsRequired, raw_columns.visits)
       THEN LET df == DfCopy("caller")
            IN /\ raw_visits' = IF df = "caller" THEN CleanedVisits(raw_visits)
                                ELSE raw_visits
               /\ visits_clean' = CleanedVisits(raw_visits)
               /\ etl_raised' = "none"
               /\ epc' = "done"
       ELSE /\ etl_raised' = "KeyError"
            /\ epc' = "failed"
            /\ UNCHANGED <<raw_visits, visits_clean>>
    /\ UNCHANGED <<raw_patients, patients_clean, transformations_applied, raw_columns>>
    /\ UNCHANGED <<wvars, cvars, xvars, pvars, fvars, rvars, uvars>>

NextEtl ==
    \/ CleanPatients
    \/ CleanVisits

SpecEtl == InitEtl /\ [][NextEtl]_vars

\* ------------------------------------------------ the regression builder
\* Timestamp.hour, on the model's times of day, and Timestamp.dayofweek with
\* day 0 a Monday.
Hour(ts) == ts % TicksPerDay
DayOfWeek(ts) == DtDate(ts) % 7

\* The fixed regression feature columns.
RegressionColumns == <<"hour", "day_of_week", "is_weekend", "is_emergency">>

\* The department value of every row, repeated values included.
CategoryPerRow(df) == Sorted(Column(df, "department"))

\* pd.get_dummies(df['department'], prefix='dept'): one column per distinct
\* value, in sorted order.
DummyCategories(df) == Sorted(Unique(Column(df, "department")))

\* A column for every department of the vocabulary, observed or not.
AllDepartmentColumns(df) ==
    [k \in 1..Len(LexOrder) |-> "dept_" \o LexOrder[k]]

DummyColumns(df) ==
    [k \in 1..Len(DummyCategories(df)) |-> "dept_" \o DummyCategories(df)[k]]

\* (df['department'] == 'Emergency').astype(int)
IsEmergency(department) == IF department = "Emergency" THEN 1 ELSE 0

\* feature_cols = ['hour', 'day_of_week', 'is_weekend', 'is_emergency']
\*                + list(dept_dummies.columns)
RegressionFeatureCols(df) == RegressionColumns \o DummyColumns(df)

\* X = df[feature_cols]: one row per visit, with its index.
RegressionFrame(df) ==
    [i \in 1..Len(df) |->
        [index |-> df[i].index,
         hour |-> Hour(df[i].visit_date),
         day_of_week |-> DayOfWeek(df[i].visit_date),
         is_weekend |-> IF DayOfWeek(df[i].visit_date) \in {5, 6} THEN 1 ELSE 0,
         is_emergency |-> IsEmergency(df[i].department),
         dept |-> [c \in Range(DummyColumns(df)) |->
                    IF c = "dept_" \o df[i].department THEN 1 ELSE 0]]]

\* The target taken from the hour of the visit.
TargetFromHour(df) ==
    [i \in 1..Len(df) |-> [index |-> df[i].index, value |-> Hour(df[i].visit_date)]]

\* y = df['wait_time_minutes']
RegressionTarget(df) ==
    [i \in 1..Len(df) |-> [index |-> df[i].index, value |-> df[i].wait_time_minutes]]

\* Cleaned visits handed to the builder: a Monday or a Saturday, any
\* department, a waiting time; index and visit_id follow the row position.
RegressionDays == {0, 5}
CleanWaits == {0, 7}
BuilderVisitRows ==
    [day : RegressionDays, department : DepartmentNames, wait_time_minutes : CleanWaits]
BuilderVisits(rows) ==
    [i \in 1..Len(rows) |->
        [index |-> i - 1,
         visit_id |-> i,
         visit_date |-> rows[i].day * TicksPerDay + (i % TicksPerDay),
         department |-> rows[i].department,
         wait_time_minutes |-> rows[i].wait_time_minutes]]

\* ML datasets handed to the classification builder: no patient, or one
\* patient with at most one visit.
BuilderProfiles == {p \in Profiles : p.total_visits <= 1}

InitBuilders ==
    /\ WarehouseOff
    /\ df_ml \in {WithPatientIds(rows) : rows \in SeqsUpTo(BuilderProfiles, 1)}
    /\ df_filtered = <<>>
    /\ X = <<>>
    /\ y = <<>>
    /\ cpc = "ready"
    /\ PredictOff
    /\ FeaturesOff
    /\ EtlInputsOff
    /\ visits_clean \in {BuilderVisits(rows) : rows \in SeqsUpTo(BuilderVisitRows, MaxVisits)}
    /\ X_reg = <<>>
    /\ y_reg = <<>>
    /\ X_reg_columns = <<>>
    /\ rpc = "ready"
    /\ RunOff

\* FeatureEngineer.prepare_regression_features(df_visits)
PrepareRegressionFeatures ==
    /\ rpc = "ready"
    /\ X_reg' = RegressionFrame(visits_clean)
    /\ y_reg' = RegressionTarget(visits_clean)
    /\ X_reg_columns' =
          SelectColumns(Append(RegressionFeatureCols(visits_clean), "wait_time_minutes"),
                        RegressionFeatureCols(visits_clean))
    /\ rpc' = "done"
    /\ UNCHANGED <<wvars, cvars, xvars, pvars, fvars, evars, uvars>>

NextBuilders ==
    \/ PrepareClassificationFeatures
    \/ PrepareRegressionFeatures

SpecBuilders == InitBuilders /\ [][NextBuilders]_vars

\* ----------------------------------------------------- the pipeline run
\* The calls of run_complete_pipeline, in the order of its try block.
StageOrder ==
    <<"generate", "load_validate", "clean", "warehouse", "features",
      "train_classifier", "train_regressor", "save_models">>

\* The stage after stage, "ended" after the last.
NextStage(stage) ==
    LET i == CHOOSE k \in 1..Len(StageOrder) : StageOrder[k] = stage
    IN IF i = Len(StageOrder) THEN "ended" ELSE StageOrder[i + 1]

\* A run that goes on to the next call after an exception.
StageContinues(stage, raised) ==
    /\ run_pc = stage
    /\ run_log' = Append(run_log,
            [stage |-> stage, outcome |-> IF raised THEN "raised" ELSE "returned"])
    /\ run_pc' = NextStage(stage)
    /\ run_result' = IF NextStage(stage) = "ended" THEN "True" ELSE run_result

\* One call inside the try block: when it raises, except Exception prints
\* the failure and the run returns False; after the last call the run
\* returns True.
StageEnds(stage, raised) ==
    /\ run_pc = stage
    /\ run_log' = Append(run_log,
            [stage |-> stage, outcome |-> IF raised THEN "raised" ELSE "returned"])
    /\ run_pc' = IF raised THEN "ended" ELSE NextStage(stage)
    /\ run_result' = IF raised THEN "False"
                     ELSE IF NextStage(stage) = "ended" THEN "True"
                     ELSE run_result

\* Whether train_test_split accepts a set of n rows: it raises ValueError
\* on zero rows; a larger set may still fail in the split or the fit.
SplitRaises(n) == IF n = 0 THEN {TRUE} ELSE BOOLEAN

InitPipeline ==
    /\ WarehouseOff
    /\ ClassInit
    /\ PredictOff
    /\ FeaturesOff
    /\ EtlOff
    /\ RegressOff
    /\ run_pc = "generate"
    /\ run_log = <<>>
    /\ run_result = "none"

\* Steps 1 to 4: a stage returns or raises (a missing file, a schema or
\* database error); its data is not looked at here.
Generate ==
    /\ \E raised \in BOOLEAN : StageEnds("generate", raised)
    /\ UNCHANGED <<wvars, cvars, xvars, pvars, fvars, evars, rvars>>

LoadAndValidate ==
    /\ \E raised \in BOOLEAN : StageEnds("load_validate", raised)
    /\ UNCHANGED <<wvars, cvars, xvars, pvars, fvars, evars, rvars>>

Clean ==
    /\ \E raised \in BOOLEAN : StageEnds("clean", raised)
    /\ UNCHANGED <<wvars, cvars, xvars, pvars, fvars, evars, rvars>>

BuildWarehouse ==
    /\ \E raised \in BOOLEAN : StageEnds("warehouse", raised)
    /\ UNCHANGED <<wvars, cvars, xvars, pvars, fvars, evars, rvars>>

\* Step 5: create_ml_dataset, save_features and the two feature builders;
\* the classification set is kept for the training step.
EngineerFeatures ==
    /\ \E raised \in BOOLEAN :
        /\ StageEnds("features", raised)
        /\ IF raised
           THEN UNCHANGED <<cvars, xvars>>
           ELSE \E ml \in {WithPatientIds(rows) : rows \in SeqsUpTo(Profiles, 1)} :
                    /\ df_ml' = ml
                    /\ df_filtered' = FilteredWithLabel(ml)
                    /\ X' = FeatureFrame(FilteredWithLabel(ml))
                    /\ y' = LabelSeries(FilteredWithLabel(ml))
                    /\ X_columns' = SelectColumns(MLColumns, feature_cols)
                    /\ cpc' = "done"
    /\ UNCHANGED <<wvars, pvars, fvars, evars, rvars>>

\* Step 6: trainer.train_classifier(X_class, y_class), called whatever the
\* size of the set.
TrainClassifier ==
    /\ \E raised \in SplitRaises(Len(X)) : StageEnds("train_classifier", raised)
    /\ UNCHANGED <<wvars, cvars, xvars, pvars, fvars, evars, rvars>>

TrainRegressor ==
    /\ \E raised \in BOOLEAN : StageEnds("train_regressor", raised)
    /\ UNCHANGED <<wvars, cvars, xvars, pvars, fvars, evars, rvars>>

SaveModels ==
    /\ \E raised \in BOOLEAN : StageEnds("save_models", raised)
    /\ UNCHANGED <<wvars, cvars, xvars, pvars, fvars, evars, rvars>>

NextPipeline ==
    \/ Generate
    \/ LoadAndValidate
    \/ Clean
    \/ BuildWarehouse
    \/ EngineerFeatures
    \/ TrainClassifier
    \/ TrainRegressor
    \/ SaveModels

SpecPipeline == InitPipeline /\ [][NextPipeline]_vars

\* ================================================================ claims
Rows(t) == tables[t].rows
VisitDays == {DtDate(df_visits[i].visit_date) : i \in 1..Len(df_visits)}

\* All the orders the rows of a data frame can come in.
Permuted(df) ==
    LET n == Len(df)
        bij == {f \in [1..n -> 1..n] : \A i, j \in 1..n : f[i] = f[j] => i = j}
    IN {[i \in 1..n |-> df[f[i]]] : f \in bij}

\* C1: after a completed build_warehouse on a non-empty visit set, every
\* fact_visits row's date_id is the date_id of a dim_date row and its
\* department_id the department_id of a dim_department row.
C1_NoDanglingForeignKeys ==
    (pc = "idle" /\ status = "ok" /\ df_visits # <<>>) =>
        \A i \in 1..Len(Rows("fact_visits")) :
            /\ \E d \in 1..Len(Rows("dim_date")) :
                   Rows("dim_date")[d].date_id = Rows("fact_visits")[i].date_id
            /\ \E d \in 1..Len(Rows("dim_department")) :
                   Rows("dim_department")[d].department_id
                       = Rows("fact_visits")[i].department_id

\* C2: dim_date has exactly one row per calendar day from the day of the
\* earliest visit to the day of the latest visit, the row of day d carrying
\* date_id = (d - minDay) + 1, whatever the times of day.
C2_DimDateOneRowPerDay ==
    (tables["dim_date"].exists /\ df_visits # <<>>) =>
        LET minDay == SetMin(VisitDays)
            maxDay == SetMax(VisitDays)
            rows == Rows("dim_date")
        IN /\ Len(rows) = (maxDay - minDay) + 1
           /\ \A i \in 1..Len(rows) :
                  rows[i].date_id = i /\ DtDate(rows[i].full_date) = minDay + (i - 1)

\* C3: when a visit's department or calendar day has no entry in the
\* department or date mapping, the run fails and no fact_visits row with a
\* null department_id or date_id is written.
C3_UnresolvedKeyRejectsRun ==
    LET dim_date == DimDate(df_visits)
        dim_department == DimDepartment(df_visits)
        mappedDays == {DtDate(dim_date[d].full_date) : d \in 1..Len(dim_date)}
        mappedNames == {dim_department[d].department_name : d \in 1..Len(dim_department)}
        unresolved == \E i \in 1..Len(df_visits) :
                          \/ DtDate(df_visits[i].visit_date) \notin mappedDays
                          \/ df_visits[i].department \notin mappedNames
    IN (df_visits # <<>> /\ unresolved) =>
           /\ status # "ok"
           /\ \A i \in 1..Len(Rows("fact_visits")) :
                  /\ Rows("fact_visits")[i].date_id # NaN
                  /\ Rows("fact_visits")[i].department_id # NaN

\* C4: while an existing warehouse is rebuilt, the four tables a reader sees
\* are all those of the previous build or all those of the new build.
C4_ReaderSeesOneBuild ==
    (builds >= 2 /\ last.status = "ok") =>
        \/ \A t \in TableNames : tables[t].exists /\ written[t] = builds - 1
        \/ \A t \in TableNames : tables[t].exists /\ written[t] = builds

\* C5: when build_warehouse fails after it has started, the store holds no
\* table of the failed build: never new dimension tables next to an old or
\* absent fact_visits.
C5_FailedBuildWritesNothing ==
    (pc = "idle" /\ status = "failed") =>
        \A t \in TableNames : written[t] # builds

\* C6: when some visit's patient_id is no patient's, the run is aborted
\* before or during the warehouse stage and no fact_visits row referencing a
\* nonexistent patient is written.
C6_OrphanVisitAbortsRun ==
    (OrphanVisits # {}) =>
        /\ status # "ok"
        /\ \A i \in 1..Len(Rows("fact_visits")) :
               Rows("fact_visits")[i].patient_id \in Range(df_patients)

\* C7: a second build_warehouse on the same patients and visits ends as the
\* first did and leaves the store with the same tables, rows, surrogate keys
\* and indexes.
C7_RebuildIdempotent ==
    (pc = "idle" /\ builds >= 2) =>
        /\ status = last.status
        /\ tables = last.tables
        /\ indexes = last.indexes

C7_Witness ==
    /\ pc = "idle"
    /\ builds = 2
    /\ status = "ok"
    /\ last.status = "ok"
    /\ Len(Rows("fact_visits")) = 2
    /\ Len(Rows("dim_department")) = 2
    /\ indexes = FactIndexes

\* C8: dim_department has exactly one row per distinct department name of
\* the visits, the k-th name in lexicographic order has department_id = k,
\* and every permutation of the visit rows gives the same table.
C8_DimDepartmentSortedKeys ==
    tables["dim_department"].exists =>
        LET rows == Rows("dim_department")
            names == {df_visits[i].department : i \in 1..Len(df_visits)}
        IN /\ Len(rows) = Cardinality(names)
           /\ {rows[k].department_name : k \in 1..Len(rows)} = names
           /\ \A k \in 1..Len(rows) :
                  /\ rows[k].department_id = k
                  /\ Cardinality({n \in names : Rank(n) < Rank(rows[k].department_name)})
                         = k - 1
           /\ \A p \in Permuted(df_visits) : DimDepartment(p) = rows

C8_Witness ==
    /\ tables["dim_department"].exists
    /\ Len(df_visits) = 2
    /\ df_visits[1].department = "Emergency"
    /\ df_visits[2].department = "Cardiology"
    /\ Rows("dim_department") =
           <<[department_id |-> 1, department_name |-> "Cardiology"],
             [department_id |-> 2, department_name |-> "Emergency"]>>

\* C9: prepare_classification_features keeps exactly the rows with
\* total_admissions > 0: a patient with no admission (or no visit) is in
\* neither X nor y, a patient with an admission is in each exactly once.
C9_KeepsExactlyAdmitted ==
    cpc = "done" =>
        /\ Len(X) = Len(y)
        /\ \A i \in 1..Len(df_ml) :
               LET inX == {j \in 1..Len(X) : X[j].index = df_ml[i].index}
                   inY == {j \in 1..Len(y) : y[j].index = df_ml[i].index}
                   inF == {j \in 1..Len(df_filtered) :
                               df_filtered[j].patient_id = df_ml[i].patient_id}
                   n == IF df_ml[i].total_admissions >= 1 THEN 1 ELSE 0
               IN /\ Cardinality(inX) = n
                  /\ Cardinality(inY) = n
                  /\ Cardinality(inF) = n

C9_Witness ==
    /\ cpc = "done"
    /\ Len(df_ml) = 2
    /\ df_ml[1].total_visits = 0
    /\ df_ml[2].total_admissions = 1
    /\ Len(X) = 1
    /\ X[1].index = df_ml[2].index

\* C10: the label of a classification row is 1 if admission_rate >= 0.3 or
\* total_admissions >= 2 and 0 otherwise; (2, 0.1) and (1, 0.5) give 1 and
\* (1, 0.1) is included with label 0.
C10_LabelDefinition ==
    cpc = "done" =>
        /\ \A j \in 1..Len(y) :
               LET r == X[j].admission_rate
                   risky == 10 * r.num >= 3 * r.den \/ X[j].total_admissions >= 2
               IN /\ X[j].index = y[j].index
                  /\ y[j].value = (IF risky THEN 1 ELSE 0)
                  /\ df_filtered[j].high_readmission_risk = y[j].value
        /\ \A i \in 1..Len(df_ml) :
               LET labels == {y[j].value : j \in {k \in 1..Len(y) : y[k].index = df_ml[i].index}}
               IN /\ (df_ml[i].total_admissions = 2 /\ df_ml[i].total_visits = 20)
                      => labels = {1}
                  /\ (df_ml[i].total_admissions = 1 /\ df_ml[i].total_visits = 2)
                      => labels = {1}
                  /\ (df_ml[i].total_admissions = 1 /\ df_ml[i].total_visits = 10)
                      => labels = {0}

C10_Witness ==
    /\ cpc = "done"
    /\ Len(y) = 2
    /\ X[1].total_admissions = 2 /\ X[1].admission_rate = Rate(2, 20) /\ y[1].value = 1
    /\ X[2].total_admissions = 1 /\ X[2].admission_rate = Rate(1, 10) /\ y[2].value = 0


\* The 14 feature names of the classification projection, in order.
C11_Names ==
    <<"age", "bmi", "chronic_condition_count", "total_visits",
      "total_admissions", "avg_wait_time", "visit_frequency", "admission_rate",
      "is_smoker", "has_chronic_condition", "high_bmi", "senior_citizen",
      "multiple_conditions", "frequent_visitor">>

\* C11: the columns of X returned by prepare_classification_features are
\* exactly the 14 feature names in their fixed order, and the frame
\* predict_readmission_risk hands to the scaler and model has the same 14
\* names in the same order, whatever the order or extra keys of the caller's
\* feature map.
C11_FixedFeatureOrder ==
    /\ cpc = "done" => X_columns = C11_Names
    /\ ppc = "predicted" =>
          [i \in 1..Len(handed) |-> handed[i].name] = C11_Names

\* Both have run, on a feature map that starts with the last feature and
\* carries a key that is no feature.
C11_Witness ==
    /\ cpc = "done"
    /\ ppc = "predicted"
    /\ Len(patient_features) >= 2
    /\ patient_features[1].key = "frequent_visitor"
    /\ \E i \in 1..Len(patient_features) : patient_features[i].key = "patient_id"

\* A possible profile with the feature values of row r of X.
C12_SameFeatures(r, p) ==
    /\ r.total_visits = p.total_visits
    /\ r.total_admissions = p.total_admissions
    /\ RateGe(r.admission_rate, p.admission_rate)
    /\ RateGe(p.admission_rate, r.admission_rate)

\* C12: the classification projection has no data leakage: the label of a
\* row of the classification set is not computable from that row's feature
\* values, that is, some patient with an admission has the same feature
\* values and the other label.
C12_NoDataLeakage ==
    cpc = "done" =>
        \A j \in 1..Len(X) :
            \E p \in Profiles :
                /\ HasAdmission(p)
                /\ C12_SameFeatures(X[j], p)
                /\ HighReadmissionRisk(p) # y[j].value

\* Equal quotients.
RateEq(r, q) == r.num * q.den = q.num * r.den

\* The visits of patient p in the aggregated input.
VisitsOf(p) == SelectSeq(fe_visits, LAMBDA v : v.patient_id = p)

\* The aggregation has run.
Aggregated == fpc \in {"aggregated", "done"}

\* C13: every patient with a visit gets exactly one profile, with
\* total_visits the number of the patient's visits, total_admissions the sum
\* of their flags, first_visit / last_visit the earliest / latest timestamp,
\* visit_frequency = total_visits / days_since_first_visit * 365 and
\* admission_rate = total_admissions / total_visits; three visits on days 1,
\* 5 and 10 with one admission give total_visits 3, total_admissions 1,
\* days_since_first_visit 10 and visit_frequency 109.5; the order of the
\* input rows does not matter.
C13_AggregationPerPatient ==
    Aggregated =>
        /\ \A p \in Range(Column(fe_visits, "patient_id")) :
            /\ Cardinality({k \in 1..Len(visit_agg) : visit_agg[k].patient_id = p}) = 1
            /\ \A k \in 1..Len(visit_agg) :
                visit_agg[k].patient_id = p =>
                    LET r == visit_agg[k]
                        dates == Range(Column(VisitsOf(p), "visit_date"))
                    IN /\ r.total_visits = Len(VisitsOf(p))
                       /\ r.total_admissions = Sum(Column(VisitsOf(p), "is_admitted"))
                       /\ r.first_visit \in dates /\ \A d \in dates : r.first_visit <= d
                       /\ r.last_visit \in dates /\ \A d \in dates : r.last_visit >= d
                       /\ RateEq(r.visit_frequency,
                                 Rate(r.total_visits * 365, r.days_since_first_visit))
                       /\ RateEq(r.admission_rate, Rate(r.total_admissions, r.total_visits))
                       /\ (/\ Len(VisitsOf(p)) = 3
                           /\ {DtDate(d) : d \in dates} = {1, 5, 10}
                           /\ r.total_admissions = 1)
                          => /\ r.days_since_first_visit = 10
                             /\ RateEq(r.visit_frequency, Rate(219, 2))
        /\ \A other \in Permuted(fe_visits) : VisitAggregations(other) = visit_agg

\* C14: for every aggregated profile days_since_first_visit is the whole
\* days between first_visit and last_visit plus 1, so at least 1 and never
\* zero; a patient whose visits all fall on one day has 1.
C14_DaysAtLeastOne ==
    Aggregated =>
        \A k \in 1..Len(visit_agg) :
            LET r == visit_agg[k]
                days == {DtDate(d) : d \in Range(Column(VisitsOf(r.patient_id), "visit_date"))}
            IN /\ r.days_since_first_visit =
                    (r.last_visit - r.first_visit) \div TicksPerDay + 1
               /\ r.days_since_first_visit >= 1
               /\ Cardinality(days) = 1 => r.days_since_first_visit = 1

\* A profile of two visits at different times of one day.
C14_Witness ==
    /\ Aggregated
    /\ \E k \in 1..Len(visit_agg) :
        /\ visit_agg[k].total_visits = 2
        /\ visit_agg[k].first_visit # visit_agg[k].last_visit
        /\ DtDate(visit_agg[k].first_visit) = DtDate(visit_agg[k].last_visit)
        /\ visit_agg[k].days_since_first_visit = 1

\* A quotient that is a number in [0, 1]; a number that is >= 0.
InUnitInterval(r) == r.den > 0 /\ 0 <= r.num /\ r.num <= r.den
NonNegative(r) == r.den > 0 /\ r.num >= 0

\* C15: every aggregated profile built from cleaned visits has
\* 0 <= admission_rate <= 1 and visit_frequency >= 0, and so has every row
\* of the ML dataset after the left join with the patients.
C15_RatesInRange ==
    /\ Aggregated =>
        \A k \in 1..Len(visit_agg) :
            /\ InUnitInterval(visit_agg[k].admission_rate)
            /\ NonNegative(visit_agg[k].visit_frequency)
    /\ fpc = "done" =>
        \A i \in 1..Len(ml_dataset) :
            /\ InUnitInterval(ml_dataset[i].admission_rate)
            /\ NonNegative(ml_dataset[i].visit_frequency)

\* An ML dataset with a patient without a visit and a patient whose two
\* visits were both admissions.
C15_Witness ==
    /\ fpc = "done"
    /\ \E i, j \in 1..Len(ml_dataset) :
        /\ ml_dataset[i].total_visits = 0
        /\ ml_dataset[j].total_visits = 2
        /\ ml_dataset[j].total_admissions = 2

\* C16: a patient whose history spans zero days, first and last visit at the
\* same instant or on the same day, has visit_frequency 0.
C16_ZeroSpanZeroFrequency ==
    Aggregated =>
        \A k \in 1..Len(visit_agg) :
            DtDate(visit_agg[k].first_visit) = DtDate(visit_agg[k].last_visit)
                => RateEq(visit_agg[k].visit_frequency, Rate(0, 1))

\* C17: create_ml_dataset returns exactly one row per input patient, in the
\* patients' order, and a patient with no visit has total_visits,
\* total_admissions, visit_frequency, admission_rate and frequent_visitor
\* equal to 0, none of them missing.
C17_OneRowPerPatient ==
    fpc = "done" =>
        /\ Len(ml_dataset) = Len(fe_patients)
        /\ \A i \in 1..Len(fe_patients) :
            /\ i <= Len(ml_dataset)
            /\ ml_dataset[i].patient_id = fe_patients[i].patient_id
            /\ VisitsOf(fe_patients[i].patient_id) = <<>> =>
                /\ ml_dataset[i].total_visits = 0
                /\ ml_dataset[i].total_admissions = 0
                /\ ml_dataset[i].frequent_visitor = 0
                /\ ~IsNaN(ml_dataset[i].visit_frequency)
                /\ RateEq(ml_dataset[i].visit_frequency, Rate(0, 1))
                /\ ~IsNaN(ml_dataset[i].admission_rate)
                /\ RateEq(ml_dataset[i].admission_rate, Rate(0, 1))

\* Two patients, the first without a visit and the second with visits.
C17_Witness ==
    /\ fpc = "done"
    /\ Len(fe_patients) = 2
    /\ VisitsOf(fe_patients[1].patient_id) = <<>>
    /\ Len(VisitsOf(fe_patients[2].patient_id)) = 2
    /\ Len(ml_dataset) = 2

\* C18: in the ML dataset no numeric profile field is null for any patient:
\* total_visits, total_admissions, avg_wait_time, avg_satisfaction,
\* days_since_first_visit, visit_frequency, admission_rate and
\* frequent_visitor all hold a value, also for a patient with no visit and
\* also when no patient has a visit.
C18_NoNullProfileField ==
    fpc = "done" =>
        \A i \in 1..Len(ml_dataset) :
            /\ ml_dataset[i].total_visits # NaN
            /\ ml_dataset[i].total_admissions # NaN
            /\ ~IsNaN(ml_dataset[i].avg_wait_time)
            /\ ~IsNaN(ml_dataset[i].avg_satisfaction)
            /\ ml_dataset[i].days_since_first_visit # NaN
            /\ ~IsNaN(ml_dataset[i].visit_frequency)
            /\ ~IsNaN(ml_dataset[i].admission_rate)
            /\ ml_dataset[i].frequent_visitor # NaN

\* C19: every visit returned by clean_visits has wait_time_minutes >= 0: a
\* raw value below zero becomes 0 and a raw value >= 0 is unchanged.
C19_WaitTimeClamped ==
    epc = "done" =>
        \A i \in 1..Len(visits_clean) :
            /\ visits_clean[i].wait_time_minutes >= 0
            /\ raw_visits[i].wait_time_minutes < 0
                => visits_clean[i].wait_time_minutes = 0
            /\ raw_visits[i].wait_time_minutes >= 0
                => visits_clean[i].wait_time_minutes = raw_visits[i].wait_time_minutes

\* Cleaned visits of which one had a negative and one a positive raw wait.
C19_Witness ==
    /\ epc = "done"
    /\ \E i, j \in 1..Len(visits_clean) :
        /\ raw_visits[i].wait_time_minutes < 0
        /\ visits_clean[i].wait_time_minutes = 0
        /\ raw_visits[j].wait_time_minutes > 0

\* The cleaned tables hold the input records: same keys, count and order,
\* and each visit's admission flag (as 0/1), ward, length of stay and billing
\* amount are the raw values.
C20_SameRecords ==
    /\ epc \in {"patients", "done"} =>
        /\ Len(patients_clean) = Len(raw_patients)
        /\ \A i \in 1..Len(raw_patients) :
            patients_clean[i].patient_id = raw_patients[i].patient_id
    /\ epc = "done" =>
        /\ Len(visits_clean) = Len(raw_visits)
        /\ \A i \in 1..Len(raw_visits) :
            /\ visits_clean[i].visit_id = raw_visits[i].visit_id
            /\ visits_clean[i].is_admitted \in {0, 1}
            /\ visits_clean[i].is_admitted = 1 <=> raw_visits[i].is_admitted
            /\ visits_clean[i].ward = raw_visits[i].ward
            /\ visits_clean[i].length_of_stay_days = raw_visits[i].length_of_stay_days
            /\ visits_clean[i].billing_amount = raw_visits[i].billing_amount

\* C20: clean_patients and clean_visits return exactly the input records,
\* same keys, same count and same order, with no row added or removed;
\* clean_visits leaves each visit's admission flag (as 0/1), ward, length of
\* stay and billing amount equal to the raw value; and no step modifies the
\* caller's input tables.
C20_CleanerFrame ==
    /\ []C20_SameRecords
    /\ [][raw_patients' = raw_patients /\ raw_visits' = raw_visits]_vars

\* Both tables cleaned, with an admitted and a not admitted visit and a
\* patient whose missing bmi was filled.
C20_Witness ==
    /\ epc = "done"
    /\ Len(raw_patients) = 2
    /\ \E i \in 1..Len(raw_patients) :
        IsNaN(raw_patients[i].bmi) /\ ~IsNaN(patients_clean[i].bmi)
    /\ \E i, j \in 1..Len(raw_visits) :
        raw_visits[i].is_admitted /\ ~raw_visits[j].is_admitted

\* clean_patients has returned.
PatientsCleaned == epc \in {"patients", "done"}

\* The rows of the raw patient table that have a bmi.
WithBmi == {i \in 1..Len(raw_patients) : ~IsNaN(raw_patients[i].bmi)}

\* The bmi that is k-th smallest among the raw values present.
KthSmallestBmi(k) ==
    LET i == CHOOSE c \in WithBmi :
                /\ Cardinality({j \in WithBmi :
                        ~RateGe(raw_patients[j].bmi, raw_patients[c].bmi)}) < k
                /\ Cardinality({j \in WithBmi :
                        RateGe(raw_patients[c].bmi, raw_patients[j].bmi)}) >= k
    IN raw_patients[i].bmi

\* r is the median of the raw bmi values present: twice r is the sum of the
\* two middle values (the middle value counted twice for an odd count).
IsMedianBmi(r) ==
    LET n == Cardinality(WithBmi)
        lo == KthSmallestBmi((n + 1) \div 2)
        hi == KthSmallestBmi(n \div 2 + 1)
    IN /\ r.den > 0
       /\ 2 * r.num * lo.den * hi.den = (lo.num * hi.den + hi.num * lo.den) * r.den

\* C21: after clean_patients, when at least one input patient has a bmi, no
\* patient has a missing bmi: a patient whose bmi was missing has the median
\* of the bmi values present in the full input, and a patient whose bmi was
\* present keeps it.
C21_BmiImputedWithMedian ==
    (PatientsCleaned /\ WithBmi # {}) =>
        \A i \in 1..Len(raw_patients) :
            /\ ~IsNaN(patients_clean[i].bmi)
            /\ IsNaN(raw_patients[i].bmi) => IsMedianBmi(patients_clean[i].bmi)
            /\ ~IsNaN(raw_patients[i].bmi) => patients_clean[i].bmi = raw_patients[i].bmi

\* Three patients with bmi 20, missing and 30: the missing one got 25.
C21_Witness ==
    /\ PatientsCleaned
    /\ Len(raw_patients) = 3
    /\ raw_patients[1].bmi = Rate(20, 1)
    /\ IsNaN(raw_patients[2].bmi)
    /\ raw_patients[3].bmi = Rate(30, 1)
    /\ RateEq(patients_clean[2].bmi, Rate(25, 1))

\* C22: when a required column is absent from the raw patients or visits
\* table, the cleaner aborts the stage with a SchemaError and returns no
\* cleaned table.
C22_MissingColumnIsSchemaError ==
    /\ (epc # "ready" /\ ~HasColumns(PatientsRequired, raw_columns.patients)) =>
        /\ epc = "failed"
        /\ etl_raised = "SchemaError"
        /\ patients_clean = <<>>
    /\ (/\ epc \notin {"ready", "patients"}
        /\ HasColumns(PatientsRequired, raw_columns.patients)
        /\ ~HasColumns(VisitsRequired, raw_columns.visits)) =>
        /\ epc = "failed"
        /\ etl_raised = "SchemaError"
        /\ visits_clean = <<>>

\* C23: prepare_regression_features returns exactly one feature row and one
\* target value per input visit, in input order, none added or dropped; the
\* target of a visit is that visit's cleaned wait_time_minutes.
C23_OneRowPerVisit ==
    rpc = "done" =>
        /\ Len(X_reg) = Len(visits_clean)
        /\ Len(y_reg) = Len(visits_clean)
        /\ \A i \in 1..Len(visits_clean) :
            /\ i <= Len(X_reg) /\ i <= Len(y_reg)
            /\ X_reg[i].index = visits_clean[i].index
            /\ y_reg[i].index = visits_clean[i].index
            /\ y_reg[i].value = visits_clean[i].wait_time_minutes

\* Two visits with different waiting times went through the builder.
C23_Witness ==
    /\ rpc = "done"
    /\ Len(visits_clean) = 2
    /\ visits_clean[1].wait_time_minutes = 7
    /\ visits_clean[2].wait_time_minutes = 0
    /\ Len(y_reg) = 2

\* The dept_ columns of the regression features: those after the fixed four.
DeptColumns == {X_reg_columns[k] : k \in 5..Len(X_reg_columns)}

\* C24: the regression feature set has exactly one dept_<name> column per
\* distinct department of the input visits; in every row exactly one of them
\* is set, the one of the row's department; and is_emergency is 1 exactly
\* when the row's department is Emergency.
C24_OneHotDepartments ==
    rpc = "done" =>
        /\ DeptColumns =
            {"dept_" \o visits_clean[i].department : i \in 1..Len(visits_clean)}
        /\ Len(X_reg_columns) = 4 + Cardinality(DeptColumns)
        /\ \A i \in 1..Len(X_reg) :
            /\ DOMAIN X_reg[i].dept = DeptColumns
            /\ {c \in DeptColumns : X_reg[i].dept[c] = 1} =
                    {"dept_" \o visits_clean[i].department}
            /\ \A c \in DeptColumns : X_reg[i].dept[c] \in {0, 1}
            /\ X_reg[i].is_emergency \in {0, 1}
            /\ X_reg[i].is_emergency = 1 <=> visits_clean[i].department = "Emergency"

\* Two visits of the same department and, in another run, of two departments.
C24_Witness ==
    /\ rpc = "done"
    /\ Len(visits_clean) = 2
    /\ visits_clean[1].department = "Emergency"
    /\ visits_clean[2].department = "Cardiology"
    /\ Cardinality(DeptColumns) = 2
    /\ X_reg[1].is_emergency = 1

\* C25: given zero rows (for the classification builder, an ML dataset in
\* which no patient has an admission) both builders run to their end and
\* return zero-row feature and target tables with their declared columns.
C25_EmptyInputEmptyOutput ==
    /\ (cpc = "ready" /\ \A i \in 1..Len(df_ml) : df_ml[i].total_admissions = 0)
            => ENABLED PrepareClassificationFeatures
    /\ (cpc = "done" /\ \A i \in 1..Len(df_ml) : df_ml[i].total_admissions = 0) =>
        /\ X = <<>>
        /\ y = <<>>
        /\ X_columns = C11_Names
    /\ (rpc = "ready" /\ visits_clean = <<>>) => ENABLED PrepareRegressionFeatures
    /\ (rpc = "done" /\ visits_clean = <<>>) =>
        /\ X_reg = <<>>
        /\ y_reg = <<>>
        /\ X_reg_columns = <<"hour", "day_of_week", "is_weekend", "is_emergency">>

\* Both builders ran: one patient without an admission, no visit.
C25_Witness ==
    /\ cpc = "done"
    /\ rpc = "done"
    /\ Len(df_ml) = 1
    /\ df_ml[1].total_admissions = 0
    /\ visits_clean = <<>>
    /\ X = <<>>
    /\ X_reg = <<>>


\* The calls the run has made so far, by name.
StagesStarted == [i \in 1..Len(run_log) |-> run_log[i].stage]

\* C26 (as stated): when the classification builder yields zero rows, the
\* run skips training for that set: train_classifier is never called on
\* the zero-row set, and the run does not end in failure because of it.
C26_EmptySetSkipsTraining ==
    (cpc = "done" /\ Len(X) = 0) =>
        /\ \A i \in 1..Len(run_log) : run_log[i].stage # "train_classifier"
        /\ run_result # "False"

\* C27: the calls of a run are made in the fixed order generate, load and
\* validate, clean, warehouse, features, training, each one only after
\* every earlier one has returned; once a call raises no later call is
\* made and the run returns False; the run returns True only when every
\* call has returned.
C27_StagesInOrder ==
    /\ Len(run_log) <= Len(StageOrder)
    /\ StagesStarted = SubSeq(StageOrder, 1, Len(run_log))
    /\ \A i \in 1..(Len(run_log) - 1) : run_log[i].outcome = "returned"
    /\ run_result = "False" <=>
            (run_log # <<>> /\ run_log[Len(run_log)].outcome = "raised")
    /\ run_result = "True" <=>
            /\ Len(run_log) = Len(StageOrder)
            /\ \A i \in 1..Len(run_log) : run_log[i].outcome = "returned"
    /\ run_result # "none" => run_pc = "ended"
    /\ run_pc = "ended" => run_result # "none"

\* A run whose warehouse build raised after three stages had returned.
C27_Witness ==
    /\ run_result = "False"
    /\ Len(run_log) = 4
    /\ run_log[4] = [stage |-> "warehouse", outcome |-> "raised"]

\* A run that completed every stage.
C27_WitnessTrue ==
    /\ run_result = "True"
    /\ Len(run_log) = Len(StageOrder)


\* Whether probability p is at least the given number of tenths.
AtLeastTenths(p, tenths) == 10 * p.num >= tenths * p.den

\* C28: the returned risk level is Very High for p >= 0.7, High for
\* 0.5 <= p < 0.7, Moderate for 0.3 <= p < 0.5 and Low for p < 0.3, and
\* the risk class is High Risk exactly when the level is High or Very High.
C28_RiskLevelThresholds ==
    ppc = "predicted" =>
        LET p == prediction.risk_probability
            level == prediction.risk_level
        IN /\ level = "Very High" <=> AtLeastTenths(p, 7)
           /\ level = "High" <=> (AtLeastTenths(p, 5) /\ ~AtLeastTenths(p, 7))
           /\ level = "Moderate" <=> (AtLeastTenths(p, 3) /\ ~AtLeastTenths(p, 5))
           /\ level = "Low" <=> ~AtLeastTenths(p, 3)
           /\ prediction.risk_class = "High Risk" <=> level \in {"High", "Very High"}
           /\ prediction.risk_class \in {"High Risk", "Low Risk"}

\* A prediction whose probability is exactly the threshold 0.7.
C28_Witness ==
    /\ ppc = "predicted"
    /\ RateEq(prediction.risk_probability, Rate(7, 10))
    /\ prediction.risk_level = "Very High"
    /\ prediction.risk_class = "High Risk"

\* The keys of the caller's feature map.
GivenKeys == {patient_features[k].key : k \in 1..Len(patient_features)}

\* The value the caller gave for key name.
GivenValue(name) ==
    LET k == CHOOSE j \in 1..Len(patient_features) : patient_features[j].key = name
    IN patient_features[k].value

\* C29: whatever subset of the 14 classification features the caller's
\* map lacks, the call goes through: the frame handed to the model has the
\* 14 features, a missing one with value 0 and a present one with the
\* caller's value; the call fails only when no classifier is loaded.
C29_MissingFeaturesDefaultToZero ==
    /\ ppc = "predicted" =>
        /\ Len(handed) = Len(expected_features)
        /\ \A i \in 1..Len(handed) :
            /\ handed[i].name = expected_features[i]
            /\ handed[i].value =
                    IF handed[i].name \in GivenKeys
                    THEN GivenValue(handed[i].name)
                    ELSE 0
    /\ ppc = "error" => ~classifier_loaded

\* A call with a map that has age and lacks the other thirteen features.
C29_Witness ==
    /\ ppc = "predicted"
    /\ GivenKeys = {"age", "patient_id"}
    /\ handed[1] = [name |-> "age", value |-> 2]
    /\ \A i \in 2..Len(handed) : handed[i].value = 0


\* The row of the ML dataset that row j of the classification set came from.
SourceRow(j) == CHOOSE i \in 1..Len(df_ml) : df_ml[i].index = y[j].index

\* C30: with admission_rate = total_admissions / total_visits, a row of
\* the classification set has label 0 if and only if the patient has one
\* admission and at least four visits; one admission in at most three
\* visits, and two or more admissions, give label 1.
C30_LabelByCounts ==
    cpc = "done" =>
        \A j \in 1..Len(y) :
            LET r == df_ml[SourceRow(j)]
            IN RateEq(r.admission_rate, Rate(r.total_admissions, r.total_visits)) =>
                /\ y[j].value \in {0, 1}
                /\ y[j].value = 0 <=> (r.total_admissions = 1 /\ r.total_visits >= 4)
                /\ (r.total_admissions = 1 /\ r.total_visits <= 3) => y[j].value = 1
                /\ r.total_admissions >= 2 => y[j].value = 1

\* One admission in four visits (label 0) next to one in three (label 1).
C30_Witness ==
    /\ cpc = "done"
    /\ Len(y) = 2
    /\ df_ml[1].total_admissions = 1 /\ df_ml[1].total_visits = 4 /\ y[1].value = 0
    /\ df_ml[2].total_admissions = 1 /\ df_ml[2].total_visits = 3 /\ y[2].value = 1
====
